---- MODULE Spec2Model ----
(***************************************************************************)
(* patreon-rs, src/api.rs: the closed-enum string codec generated by the   *)
(* enum_str! macro, the generic JSON envelope decoding (DocResponse,       *)
(* DocResponseInclude, ApiErrorResponse) and the request cycle of          *)
(* PatreonApi (api_call, call_data, call_data_and_include).                *)
(*                                                                         *)
(* Strings are TLA+ strings, compared character by character.  A response  *)
(* body is a sequence of JSON tokens; serde_json::from_str is modelled as  *)
(* a parser of that sequence followed by the derived Deserialize impl of   *)
(* the target type.                                                        *)
(***************************************************************************)
EXTENDS Integers, Sequences, FiniteSets, TLC

VARIABLES
    pc,         \* position of the current PatreonApi call
    method,     \* the public method being executed
    request,    \* the request api_call builds and sends
    status,     \* HTTP status of the response
    text,       \* response body: a sequence of JSON tokens
    result,     \* PatreonResult returned to the caller
    access_token, \* PatreonApi.access_token
    sent,       \* the JSON document the server serialised into the response
    c_op,       \* codec: the last operation applied to an enum
    c_enum,     \* codec: the enum it was applied to
    c_variant,  \* codec: the symbol encoded
    c_str,      \* codec: the string decoded
    c_enc,      \* codec: outputs of as_str, Display::fmt and serialize
    c_res       \* codec: Result of deserialize

clientVars == <<pc, method, request, status, text, result, access_token, sent>>
codecVars == <<c_op, c_enum, c_variant, c_str, c_enc, c_res>>
vars == <<pc, method, request, status, text, result, access_token, sent,
          c_op, c_enum, c_variant, c_str, c_enc, c_res>>

(***************************************************************************)
(* Result<T, E> and Option<T>.                                             *)
(***************************************************************************)
Ok(v) == [ok |-> TRUE, val |-> v]
Err(e) == [ok |-> FALSE, err |-> e]
None == [some |-> FALSE]
Some(v) == [some |-> TRUE, v |-> v]

(***************************************************************************)
(* Characters and case conversion.                                         *)
(***************************************************************************)
LowerLetters == "abcdefghijklmnopqrstuvwxyz"
UpperLetters == "ABCDEFGHIJKLMNOPQRSTUVWXYZ"

CharAt(s, i) == SubSeq(s, i, i)

LowerChar(c) ==
    IF \E i \in 1..Len(UpperLetters) : CharAt(UpperLetters, i) = c
    THEN CharAt(LowerLetters, CHOOSE i \in 1..Len(UpperLetters) : CharAt(UpperLetters, i) = c)
    ELSE c

UpperChar(c) ==
    IF \E i \in 1..Len(LowerLetters) : CharAt(LowerLetters, i) = c
    THEN CharAt(UpperLetters, CHOOSE i \in 1..Len(LowerLetters) : CharAt(LowerLetters, i) = c)
    ELSE c

RECURSIVE ToLower(_)
ToLower(s) == IF s = "" THEN "" ELSE LowerChar(CharAt(s, 1)) \o ToLower(SubSeq(s, 2, Len(s)))

RECURSIVE ToUpper(_)
ToUpper(s) == IF s = "" THEN "" ELSE UpperChar(CharAt(s, 1)) \o ToUpper(SubSeq(s, 2, Len(s)))

(***************************************************************************)
(* JSON values as serde_json hands them to a Visitor.                      *)
(***************************************************************************)
JStr(s) == [k |-> "str", s |-> s]
JNum(n) == [k |-> "num", n |-> n]
JFloat(n) == [k |-> "float", x |-> n]
JBool(b) == [k |-> "bool", b |-> b]
JNull == [k |-> "null"]
JArr(elems) == [k |-> "arr", a |-> elems]
JObj(members) == [k |-> "obj", m |-> members]
KV(key, val) == [key |-> key, val |-> val]

(***************************************************************************)
(* enum_str!: the declarations.  A declaration is the macro's repetition   *)
(* $($variant($str),)* in source order.                                    *)
(***************************************************************************)
Arm(variant, str) == [variant |-> variant, str |-> str]

\* stringify!($variant): the identifier's own text
\* (stringify_lowercased: the text converted to lowercase)
stringify_lowercased(variant) == ToLower(variant)
stringify(variant) == variant

\* second macro arm: $name { $($variant,)* } expands to $variant(stringify!($variant))
enum_str_default(variants) ==
    [i \in 1..Len(variants) |-> Arm(variants[i], stringify(variants[i]))]

IdentityIncldue ==
    << Arm("Memberships", "memberships"),
       Arm("Campaign", "campaign") >>

LastChrgeStatus ==
    enum_str_default(<< "Paid", "Declined", "Deleted", "Pending",
                        "Refunded", "Fraud", "Other" >>)

\* (PatronStatus_shared_literal: two symbols declared with one literal)
PatronStatus_shared_literal ==
    << Arm("ActivePatron", "active_patron"),
       Arm("DeclinedPatron", "former_patron"),
       Arm("FormerPatron", "former_patron") >>
PatronStatus ==
    << Arm("ActivePatron", "active_patron"),
       Arm("DeclinedPatron", "declined_patron"),
       Arm("FormerPatron", "former_patron") >>

EnumNames == {"IdentityIncldue", "LastChrgeStatus", "PatronStatus"}

Arms(name) ==
    CASE name = "IdentityIncldue" -> IdentityIncldue
      [] name = "LastChrgeStatus" -> LastChrgeStatus
      [] name = "PatronStatus" -> PatronStatus

Variants(name) == {Arms(name)[i].variant : i \in 1..Len(Arms(name))}

\* a value of enum $name
Sym(name, variant) == [enum |-> name, variant |-> variant]

\* match self { $( $name::$variant => $str, )* }
ArmOf(name, variant) ==
    Arms(name)[CHOOSE i \in 1..Len(Arms(name)) : Arms(name)[i].variant = variant]

as_str(name, variant) == ArmOf(name, variant).str

\* Display: write!(f, "{}", $str)
\* (fmt_variant_name: the symbol's name, as Debug prints it)
fmt_variant_name(name, variant) == "" \o ArmOf(name, variant).variant
fmt(name, variant) == "" \o ArmOf(name, variant).str

\* Serialize: serializer.serialize_str($str)
serialize(name, variant) == JStr(ArmOf(name, variant).str)

\* Visitor::expecting
expecting(name) == "a string for " \o name

\* Visitor::visit_str: the first arm whose literal equals value, else invalid_value
MatchingArms(name, value) ==
    {i \in 1..Len(Arms(name)) : Arms(name)[i].str = value}

FirstOf(S) == CHOOSE i \in S : \A j \in S : i <= j

\* (visit_str_ignoring_case: the comparison done on lowercased strings)
visit_str_ignoring_case(name, value) ==
    LET m == {i \in 1..Len(Arms(name)) : ToLower(Arms(name)[i].str) = ToLower(value)}
    IN  IF m # {}
        THEN Ok(Sym(name, Arms(name)[FirstOf(m)].variant))
        ELSE Err("invalid value: unknown " \o name \o " variant: " \o value
                 \o ", expected " \o expecting(name))
visit_str(name, value) ==
    IF MatchingArms(name, value) # {}
    THEN Ok(Sym(name, Arms(name)[FirstOf(MatchingArms(name, value))].variant))
    ELSE Err("invalid value: unknown " \o name \o " variant: " \o value
             \o ", expected " \o expecting(name))

\* (deserialize_with_fallback: an unknown string becomes the last symbol)
deserialize_with_fallback(name, json) ==
    IF json.k = "str"
    THEN (IF visit_str(name, json.s).ok THEN visit_str(name, json.s)
          ELSE Ok(Sym(name, Arms(name)[Len(Arms(name))].variant)))
    ELSE Err("invalid type: " \o json.k \o ", expected " \o expecting(name))
\* Deserialize: deserializer.deserialize_str(Visitor); the Visitor only
\* implements visit_str, every other JSON type is an invalid type
deserialize(name, json) ==
    IF json.k = "str"
    THEN visit_str(name, json.s)
    ELSE Err("invalid type: " \o json.k \o ", expected " \o expecting(name))

(***************************************************************************)
(* Response text.  A body is the sequence of JSON tokens of the text; the  *)
(* server writes a document with Render, the transport may deliver only a  *)
(* prefix of it.                                                           *)
(***************************************************************************)
P(c) == [t |-> "punct", c |-> c]
Scalar(j) == [t |-> "scalar", j |-> j]

RECURSIVE Render(_), RenderElems(_, _), RenderMembers(_, _)
Render(j) ==
    CASE j.k = "arr" -> <<P("[")>> \o RenderElems(j.a, 1) \o <<P("]")>>
      [] j.k = "obj" -> <<P("{")>> \o RenderMembers(j.m, 1) \o <<P("}")>>
      [] OTHER -> <<Scalar(j)>>
RenderElems(es, i) ==
    IF i > Len(es) THEN <<>>
    ELSE (IF i > 1 THEN <<P(",")>> ELSE <<>>) \o Render(es[i]) \o RenderElems(es, i + 1)
RenderMembers(ms, i) ==
    IF i > Len(ms) THEN <<>>
    ELSE (IF i > 1 THEN <<P(",")>> ELSE <<>>)
         \o <<Scalar(JStr(ms[i].key)), P(":")>> \o Render(ms[i].val)
         \o RenderMembers(ms, i + 1)

(***************************************************************************)
(* serde_json's reader: one JSON value starting at token i.  The result is *)
(* [ok, val, next] or [ok, err].                                           *)
(***************************************************************************)
Parsed(v, next) == [ok |-> TRUE, val |-> v, next |-> next]
IsPunct(toks, i, c) == i <= Len(toks) /\ toks[i].t = "punct" /\ toks[i].c = c

RECURSIVE ParseValue(_, _), ParseElems(_, _, _), ParseMembers(_, _, _)
ParseValue(toks, i) ==
    IF i > Len(toks) THEN Err("EOF while parsing a value")
    ELSE IF toks[i].t = "scalar" THEN Parsed(toks[i].j, i + 1)
    ELSE IF toks[i].c = "[" THEN
        (IF IsPunct(toks, i + 1, "]") THEN Parsed(JArr(<<>>), i + 2)
         ELSE ParseElems(toks, i + 1, <<>>))
    ELSE IF toks[i].c = "{" THEN
        (IF IsPunct(toks, i + 1, "}") THEN Parsed(JObj(<<>>), i + 2)
         ELSE ParseMembers(toks, i + 1, <<>>))
    ELSE Err("expected value")
ParseElems(toks, i, acc) ==
    LET r == ParseValue(toks, i) IN
    IF ~r.ok THEN r
    ELSE IF r.next > Len(toks) THEN Err("EOF while parsing a list")
    ELSE IF IsPunct(toks, r.next, "]") THEN Parsed(JArr(Append(acc, r.val)), r.next + 1)
    ELSE IF IsPunct(toks, r.next, ",") THEN ParseElems(toks, r.next + 1, Append(acc, r.val))
    ELSE Err("expected , or ]")
ParseMembers(toks, i, acc) ==
    IF i > Len(toks) THEN Err("EOF while parsing an object")
    ELSE IF ~(toks[i].t = "scalar" /\ toks[i].j.k = "str") THEN Err("key must be a string")
    ELSE IF i + 1 > Len(toks) THEN Err("EOF while parsing an object")
    ELSE IF ~IsPunct(toks, i + 1, ":") THEN Err("expected :")
    ELSE LET r == ParseValue(toks, i + 2) IN
        IF ~r.ok THEN r
        ELSE IF r.next > Len(toks) THEN Err("EOF while parsing an object")
        ELSE IF IsPunct(toks, r.next, "}")
             THEN Parsed(JObj(Append(acc, KV(toks[i].j.s, r.val))), r.next + 1)
        ELSE IF IsPunct(toks, r.next, ",")
             THEN ParseMembers(toks, r.next + 1, Append(acc, KV(toks[i].j.s, r.val)))
        ELSE Err("expected , or }")

\* the whole text is one JSON value and nothing follows it
ParseDocument(toks) ==
    LET r == ParseValue(toks, 1) IN
    IF ~r.ok THEN r
    ELSE IF r.next <= Len(toks) THEN Err("trailing characters")
    ELSE Ok(r.val)

(***************************************************************************)
(* Target types of deserialization.  A struct is its field list in source  *)
(* order; key is the JSON member name (serde rename), name the Rust field. *)
(***************************************************************************)
TString == [k |-> "String"]
Ti64 == [k |-> "i64"]
TBool == [k |-> "bool"]
TDateTimeUtc == [k |-> "DateTime"]
TOption(T) == [k |-> "Option", of |-> T]
TVec(T) == [k |-> "Vec", of |-> T]
TEnum(name) == [k |-> "enum", name |-> name]
Struct(name, fields) == [k |-> "struct", name |-> name, fields |-> fields]
Field(name, ty) == [name |-> name, key |-> name, ty |-> ty]
Renamed(name, key, ty) == [name |-> name, key |-> key, ty |-> ty]

UserAttributes ==
    Struct("UserAttributes",
      << Field("first_name", TString),
         Field("last_name", TString),
         Field("full_name", TString),
         Field("vanity", TOption(TString)),
         Field("email", TString),
         Field("about", TOption(TString)),
         Field("facebook_id", TOption(TString)),
         Field("image_url", TString),
         Field("thumb_url", TString),
         Field("youtube", TOption(TString)),
         Field("twitter", TOption(TString)),
         Field("facebook", TOption(TString)),
         Field("created", TDateTimeUtc),
         Field("url", TString) >>)

MemberAttributesFields ==
    << Field("campaign_lifetime_support_cents", Ti64),
       Field("currently_entitled_amount_cents", Ti64),
       Field("email", TOption(TString)),
       Field("full_name", TString),
       Field("is_follower", TBool),
       Field("last_charge_date", TDateTimeUtc),
       Field("last_charge_status", TOption(TEnum("LastChrgeStatus"))),
       Field("lifetime_support_cents", Ti64),
       Field("next_charge_date", TDateTimeUtc),
       Field("note", TString),
       Field("patron_status", TOption(TEnum("PatronStatus"))),
       Field("pledge_cadence", Ti64),
       Field("pledge_relationship_start", TDateTimeUtc),
       Field("will_pay_amount_cents", Ti64) >>

\* (MemberAttributes_charge_status_required: last_charge_status: LastChrgeStatus)
MemberAttributes_charge_status_required ==
    Struct("MemberAttributes",
           [MemberAttributesFields EXCEPT ![7] = Field("last_charge_status", TEnum("LastChrgeStatus"))])
MemberAttributes == Struct("MemberAttributes", MemberAttributesFields)

ApiDocument(A) ==
    Struct("ApiDocument",
      << Renamed("document_type", "type", TString),
         Field("id", TString),
         Field("attributes", A) >>)

User == ApiDocument(UserAttributes)
Member == ApiDocument(MemberAttributes)

DocResponse(D) == Struct("DocResponse", << Field("data", D) >>)

\* (DocResponseInclude_include_defaulted: include: Option<Vec<I>>)
DocResponseInclude_include_defaulted(D, I) ==
    Struct("DocResponseInclude",
      << Field("data", D), Field("include", TOption(TVec(I))) >>)
DocResponseInclude(D, I) ==
    Struct("DocResponseInclude",
      << Field("data", D), Field("include", TVec(I)) >>)

\* crate::ApiError: an element of the server's error list, carried as received
ApiError == [k |-> "ApiError"]

ApiErrorResponse == Struct("ApiErrorResponse", << Field("errors", TVec(ApiError)) >>)

(***************************************************************************)
(* Deserialize for each target type.                                       *)
(***************************************************************************)
InvalidType(j, expected) == Err("invalid type: " \o j.k \o ", expected " \o expected)

\* chrono: an RFC 3339 string denotes an instant, kept in UTC as epoch seconds
Rfc3339 ==
    << [str |-> "2020-01-01T00:00:00Z", utc |-> 1577836800],
       [str |-> "2020-01-01T01:00:00+01:00", utc |-> 1577836800],
       [str |-> "2021-06-15T12:30:00+00:00", utc |-> 1623760200] >>

parse_rfc3339(s) ==
    IF \E i \in 1..Len(Rfc3339) : Rfc3339[i].str = s
    THEN Ok(Rfc3339[CHOOSE i \in 1..Len(Rfc3339) : Rfc3339[i].str = s].utc)
    ELSE Err("input is not an RFC 3339 date-time: " \o s)

FieldNames(T) == {T.fields[i].name : i \in 1..Len(T.fields)}
FieldsWithKey(T, key) == {i \in 1..Len(T.fields) : T.fields[i].key = key}

\* derived visit_map, after the last member: a field never seen is None when
\* it is an Option, a missing-field error otherwise
missing_fields(T, acc) ==
    LET required == {i \in 1..Len(T.fields) :
                        /\ T.fields[i].name \notin DOMAIN acc
                        /\ T.fields[i].ty.k # "Option"}
    IN  IF required # {}
        THEN Err("missing field " \o T.fields[FirstOf(required)].key)
        ELSE Ok([n \in FieldNames(T) |-> IF n \in DOMAIN acc THEN acc[n] ELSE None])

RECURSIVE Deserialize(_, _), visit_map(_, _, _, _), visit_seq(_, _, _, _), visit_vec(_, _, _, _)
Deserialize(T, j) ==
    CASE T.k = "String" -> IF j.k = "str" THEN Ok(j.s) ELSE InvalidType(j, "a string")
      [] T.k = "i64" -> IF j.k = "num" THEN Ok(j.n) ELSE InvalidType(j, "i64")
      [] T.k = "bool" -> IF j.k = "bool" THEN Ok(j.b) ELSE InvalidType(j, "a boolean")
      [] T.k = "DateTime" ->
            IF j.k = "str" THEN parse_rfc3339(j.s)
            ELSE InvalidType(j, "a formatted date and time string")
      [] T.k = "Option" ->
            IF j.k = "null" THEN Ok(None)
            ELSE LET r == Deserialize(T.of, j) IN IF r.ok THEN Ok(Some(r.val)) ELSE r
      [] T.k = "Vec" ->
            IF j.k = "arr" THEN visit_vec(T.of, j.a, 1, <<>>)
            ELSE InvalidType(j, "a sequence")
      [] T.k = "enum" -> deserialize(T.name, j)
      [] T.k = "ApiError" ->
            IF j.k = "obj" THEN Ok([payload |-> j.m])
            ELSE InvalidType(j, "struct ApiError")
      [] T.k = "struct" ->
            IF j.k = "obj" THEN visit_map(T, j.m, 1, <<>>)
            ELSE IF j.k = "arr" THEN visit_seq(T, j.a, 1, <<>>)
            ELSE InvalidType(j, "struct " \o T.name)

\* (visit_vec_reversed: each element put in front of the earlier ones)
RECURSIVE visit_vec_reversed(_, _, _, _)
visit_vec_reversed(T, elems, i, acc) ==
    IF i > Len(elems) THEN Ok(acc)
    ELSE LET r == Deserialize(T, elems[i]) IN
         IF r.ok THEN visit_vec_reversed(T, elems, i + 1, <<r.val>> \o acc) ELSE r
\* Vec<T>: every element in order, the first failure fails the sequence
visit_vec(T, elems, i, acc) ==
    IF i > Len(elems) THEN Ok(acc)
    ELSE LET r == Deserialize(T, elems[i]) IN
         IF r.ok THEN visit_vec(T, elems, i + 1, Append(acc, r.val)) ELSE r

\* derived visit_map: members in order; an unknown key is skipped, a known
\* key seen twice is an error, a value that fails fails the struct
visit_map(T, members, i, acc) ==
    IF i > Len(members) THEN missing_fields(T, acc)
    ELSE IF FieldsWithKey(T, members[i].key) = {} THEN visit_map(T, members, i + 1, acc)
    ELSE LET f == T.fields[FirstOf(FieldsWithKey(T, members[i].key))] IN
         IF f.name \in DOMAIN acc THEN Err("duplicate field " \o f.key)
         ELSE LET r == Deserialize(f.ty, members[i].val) IN
              IF r.ok THEN visit_map(T, members, i + 1, (f.name :> r.val) @@ acc)
              ELSE r

\* derived visit_seq: a JSON array gives the fields by position
visit_seq(T, elems, i, acc) ==
    IF i > Len(T.fields)
    THEN (IF Len(elems) > Len(T.fields) THEN Err("trailing characters")
          ELSE Ok([n \in FieldNames(T) |-> acc[n]]))
    ELSE IF i > Len(elems) THEN Err("invalid length, expected struct " \o T.name)
    ELSE LET r == Deserialize(T.fields[i].ty, elems[i]) IN
         IF r.ok THEN visit_seq(T, elems, i + 1, (T.fields[i].name :> r.val) @@ acc)
         ELSE r

\* serde_json::from_str::<T>(text)
from_str(T, toks) ==
    LET p == ParseDocument(toks) IN
    IF p.ok THEN Deserialize(T, p.val) ELSE p

(***************************************************************************)
(* PatreonApi: requests.                                                   *)
(***************************************************************************)
BASE_URI == "https://www.patreon.com"

QueryPair(name, value) == [name |-> name, value |-> value]

\* Url::set_path on an http(s) URL: the path always starts with a slash
set_path(p) == IF p # "" /\ CharAt(p, 1) = "/" THEN p ELSE "/" \o p

\* agent.get(url)
Get(path, query) ==
    [verb |-> "GET", base |-> BASE_URI, path |-> path, query |-> query, headers |-> <<>>]

NoInclude == None

identity_request(include) ==
    LET fields_user ==
            << QueryPair("fields[user]",
                 "first_name,last_name,full_name,vanity,email,about,image_url,thumb_url,created,url") >>
        with_include ==
            IF include.some
            THEN << QueryPair("include", as_str("IdentityIncldue", include.v)) >>
                 \o (IF include.v = "Memberships"
                     THEN << QueryPair("fields[member]",
                               "campaign_lifetime_support_cents,currently_entitled_amount_cents,email,full_name,is_follower,last_charge_date,last_charge_status,lifetime_support_cents,next_charge_date,note,patron_status,pledge_cadence,pledge_relationship_start,will_pay_amount_cents") >>
                     ELSE << QueryPair("fields[campaign]",
                               "created_at,creation_name,discord_server_id,google_analytics_id,has_rss,has_sent_rss_notify,image_small_url,image_url,is_charged_immediately,is_monthly,is_nsfw,main_video_embed,main_video_url,one_liner,patron_count,pay_per_name,pledge_url,published_at,rss_artwork_url,rss_feed_title,show_earnings,summary,thanks_embed,thanks_msg,thanks_video_url,url,vanity") >>)
            ELSE <<>>
    IN  Get(set_path("api/oauth2/v2/identity"), fields_user \o with_include)

current_user_request == Get(set_path("/api/oauth2/api/current_user"), <<>>)

(***************************************************************************)
(* PatreonError.                                                           *)
(***************************************************************************)
ReqwestError(what) == [kind |-> "Reqwest", source |-> what]
JsonError(msg) == [kind |-> "Json", source |-> msg]
PatreonApiError(st, errors) == [kind |-> "PatreonApi", status |-> st, errors |-> errors]

(***************************************************************************)
(* api_call, call_data, call_data_and_include.                             *)
(***************************************************************************)
\* a header value may not hold a line break
ValidHeaderValue(s) == \A i \in 1..Len(s) : CharAt(s, i) # "\n"

\* api_call, lines 64-67: the two headers and build()?
api_call_build(req, token) ==
    LET value == "Bearer " \o token IN
    IF ValidHeaderValue(value)
    THEN Ok([req EXCEPT !.headers = << QueryPair("Authorization", value),
                                        QueryPair("User-Agent", "Patreon-rust") >>])
    ELSE Err(ReqwestError("builder error"))

\* StatusCode::is_success
is_success(st) == 200 <= st /\ st <= 299

\* api_call, lines 73-80
\* (api_call_always_reports: without the test of the status;
\*  api_call_returns_body: a body that is no errors envelope returned as Ok)
api_call_always_reports(st, txt) ==
    LET r == from_str(ApiErrorResponse, txt) IN
        IF r.ok THEN Err(PatreonApiError(st, r.val.errors))
        ELSE Err(JsonError(r.err))
api_call_returns_body(st, txt) ==
    LET r == from_str(ApiErrorResponse, txt) IN
        IF is_success(st) \/ ~r.ok THEN Ok(txt)
        ELSE Err(PatreonApiError(st, r.val.errors))
api_call(st, txt) ==
    IF is_success(st)
    THEN Ok(txt)
    ELSE LET r == from_str(ApiErrorResponse, txt) IN
         IF r.ok THEN Err(PatreonApiError(st, r.val.errors))
         ELSE Err(JsonError(r.err))

call_data(T, called) ==
    IF ~called.ok THEN called
    ELSE LET r == from_str(DocResponse(T), called.val) IN
         IF r.ok THEN Ok(r.val.data) ELSE Err(JsonError(r.err))

call_data_and_include(D, I, called) ==
    IF ~called.ok THEN called
    ELSE LET response == from_str(DocResponseInclude(D, I), called.val) IN
         IF response.ok THEN Ok(<< response.val.data, response.val.include >>)
         ELSE Err(JsonError(response.err))

(***************************************************************************)
(* The documents a server may answer with: well-formed ones, and ones that *)
(* deviate from them in one place.                                         *)
(***************************************************************************)
MaxInclude == 2     \* longest include array
MaxErrors == 2      \* longest errors array

SeqsUpTo(S, n) == UNION {[1..m -> S] : m \in 0..n}

UserAttributesJson ==
    << KV("first_name", JStr("Ada")),
       KV("last_name", JStr("Byron")),
       KV("full_name", JStr("Ada Byron")),
       KV("vanity", JStr("ada")),
       KV("email", JStr("ada@example.org")),
       KV("about", JStr("Analyst")),
       KV("facebook_id", JStr("fb1")),
       KV("image_url", JStr("https://img/ada")),
       KV("thumb_url", JStr("https://thumb/ada")),
       KV("youtube", JStr("yt")),
       KV("twitter", JStr("tw")),
       KV("facebook", JStr("fb")),
       KV("created", JStr("2020-01-01T00:00:00Z")),
       KV("url", JStr("https://www.patreon.com/ada")) >>

MemberAttributesJson(cents, charge, patron) ==
    << KV("campaign_lifetime_support_cents", JNum(cents)),
       KV("currently_entitled_amount_cents", JNum(500)),
       KV("email", JStr("ada@example.org")),
       KV("full_name", JStr("Ada Byron")),
       KV("is_follower", JBool(FALSE)),
       KV("last_charge_date", JStr("2021-06-15T12:30:00+00:00")),
       KV("last_charge_status", JStr(charge)),
       KV("lifetime_support_cents", JNum(cents)),
       KV("next_charge_date", JStr("2021-06-15T12:30:00+00:00")),
       KV("note", JStr("")),
       KV("patron_status", JStr(patron)),
       KV("pledge_cadence", JNum(1)),
       KV("pledge_relationship_start", JStr("2020-01-01T00:00:00Z")),
       KV("will_pay_amount_cents", JNum(500)) >>

DocumentJson(type, id, attributes) ==
    << KV("type", JStr(type)), KV("id", JStr(id)), KV("attributes", JObj(attributes)) >>

UserJson == DocumentJson("user", "1", UserAttributesJson)
Member1Json == DocumentJson("member", "m1", MemberAttributesJson(1500, "Paid", "active_patron"))
Member2Json == DocumentJson("member", "m2", MemberAttributesJson(0, "Declined", "declined_patron"))

\* the strings an enum may be asked to decode: the declared literals, their
\* other spellings (case, padding), the variant names, and undeclared words
Literals(name) == {Arms(name)[i].str : i \in 1..Len(Arms(name))}
AllLiterals == UNION {Literals(name) : name \in EnumNames}
Respelled(s) == {s, ToUpper(s), ToLower(s), " " \o s, s \o " "}
WireStrings ==
    UNION {Respelled(s) : s \in AllLiterals}
    \cup UNION {Variants(name) : name \in EnumNames}
    \cup {"suspended", "ACTIVE_PATRON", ""}

EnumCandidates ==
    {JNull, JNum(7)}
    \cup {JStr(w) : w \in Respelled("paid") \cup Respelled("former_patron")
                          \cup {"suspended", "Other", "memberships"}}

\* the values a member of the given type may hold instead of the valid one
Candidates(ty) ==
    CASE ty.k = "String" -> {JNull, JNum(7), JStr("other")}
      [] ty.k = "i64" -> {JNull, JStr("7"), JFloat(7), JNum(-1)}
      [] ty.k = "bool" -> {JNull, JStr("true"), JBool(TRUE)}
      [] ty.k = "DateTime" ->
            {JNull, JNum(7), JStr("2020-01-01T01:00:00+01:00"), JStr("2020-01-01")}
      [] ty.k = "enum" -> EnumCandidates
      [] ty.k = "Option" ->
            IF ty.of.k = "enum" THEN EnumCandidates ELSE {JNull, JNum(7), JStr("other")}
      [] ty.k = "struct" -> {JNull, JStr("x"), JObj(<<>>), JArr(<<>>)}
      [] ty.k = "Vec" -> {JNull, JObj(<<>>)}

Without(ms, key) == SelectSeq(ms, LAMBDA m : m.key # key)
With(ms, key, val) == [i \in 1..Len(ms) |-> IF ms[i].key = key THEN KV(key, val) ELSE ms[i]]
Twice(ms, key) == ms \o SelectSeq(ms, LAMBDA m : m.key = key)

\* ms, or ms with one member removed, replaced, repeated or added
Deviants(T, ms) ==
    {ms, Append(ms, KV("unknown", JNum(1)))}
    \cup UNION { {Without(ms, T.fields[i].key), Twice(ms, T.fields[i].key)}
                 \cup {With(ms, T.fields[i].key, v) : v \in Candidates(T.fields[i].ty)}
                 : i \in 1..Len(T.fields) }

\* a resource document, deviating in one place of the document or of its attributes
DocumentDeviants(A, doc) ==
    Deviants(ApiDocument(A), doc)
    \cup {With(doc, "attributes", JObj(a)) : a \in Deviants(A, doc[3].val.m)}

Values(ms) == [i \in 1..Len(ms) |-> ms[i].val]

UserDocuments == {JObj(d) : d \in DocumentDeviants(UserAttributes, UserJson)}
                 \cup {JArr(Values(UserJson))}
MemberDocuments == {JObj(d) : d \in DocumentDeviants(MemberAttributes, Member1Json)}

ValidMembers == {JObj(Member1Json), JObj(Member2Json)}

\* include arrays: any order and repetition of valid members, and the same
\* with one element replaced by a deviating one
IncludeArrays ==
    LET valid == SeqsUpTo(ValidMembers, MaxInclude) IN
    valid \cup UNION {{[l EXCEPT ![i] = d] : i \in 1..Len(l), d \in MemberDocuments} : l \in valid}

EnvelopeJson(data) == << KV("data", data) >>
EnvelopeIncludeJson(data, include) == << KV("data", data), KV("include", JArr(include)) >>

DataDocuments ==
    {JObj(EnvelopeJson(d)) : d \in UserDocuments}
    \cup {JObj(e) : e \in Deviants(DocResponse(User), EnvelopeJson(JObj(UserJson)))}

IncludeDocuments ==
    {JObj(EnvelopeIncludeJson(JObj(UserJson), l)) : l \in IncludeArrays}
    \cup {JObj(e) : e \in Deviants(DocResponseInclude(User, Member),
                                   EnvelopeIncludeJson(JObj(UserJson), <<JObj(Member1Json)>>))}
    \cup {JArr(<<JObj(UserJson), JArr(<<JObj(Member2Json)>>)>>)}

Error1Json == JObj(<< KV("code", JNum(1)), KV("detail", JStr("Unauthorized")) >>)
Error2Json == JObj(<< KV("code", JNum(2)), KV("title", JStr("Not found")) >>)

ErrorDocuments ==
    {JObj(<< KV("errors", JArr(l)) >>) : l \in SeqsUpTo({Error1Json, Error2Json}, MaxErrors)}
    \cup {JObj(e) : e \in Deviants(ApiErrorResponse, << KV("errors", JArr(<<Error1Json>>)) >>)}
    \cup { JObj(<< KV("errors", JArr(<<Error1Json, JNum(5)>>)) >>),
           JObj(<< KV("data", JObj(UserJson)), KV("errors", JArr(<<Error2Json>>)) >>),
           JArr(<< JArr(<<Error2Json>>) >>),
           JObj(<<>>), JNull, JStr("Bad Gateway") }

(***************************************************************************)
(* Response texts: the whole rendering of a document, a prefix of it, or   *)
(* the rendering followed by a stray token.                                *)
(***************************************************************************)
Whole(doc) == [doc |-> doc, text |-> Render(doc)]
Truncated(doc) ==
    {[doc |-> doc, text |-> SubSeq(Render(doc), 1, n)] : n \in 0..(Len(Render(doc)) - 1)}
Trailing(doc) == [doc |-> doc, text |-> Append(Render(doc), P("}"))]

ValidDataDocument == JObj(EnvelopeJson(JObj(UserJson)))
ValidIncludeDocument ==
    JObj(EnvelopeIncludeJson(JObj(UserJson), <<JObj(Member1Json), JObj(Member2Json)>>))

ErrorBodies == {Whole(d) : d \in ErrorDocuments}

DataBodies ==
    {Whole(d) : d \in DataDocuments \cup {ValidIncludeDocument}}
    \cup Truncated(ValidDataDocument) \cup {Trailing(ValidDataDocument)}
    \cup ErrorBodies

IncludeBodies ==
    {Whole(d) : d \in IncludeDocuments \cup {ValidDataDocument}}
    \cup Truncated(ValidIncludeDocument) \cup {Trailing(ValidIncludeDocument)}
    \cup ErrorBodies

Bodies(m) == IF m = "identity_and_member" THEN IncludeBodies ELSE DataBodies

StatusCodes == {199, 200, 299, 300, 404}
AccessTokens == {"token", "to\nken"}

(***************************************************************************)
(* The request cycle.                                                      *)
(***************************************************************************)
NotReturned == Err([kind |-> "NotReturned"])
NoDocument == [k |-> "none"]
NoRequest == Get("", <<>>)

ClientInit ==
    /\ pc = "idle"
    /\ method = "none"
    /\ request = NoRequest
    /\ status = 0
    /\ text = <<>>
    /\ sent = NoDocument
    /\ result = NotReturned
    /\ access_token \in AccessTokens

CodecInit ==
    /\ c_op = "none"
    /\ c_enum = "none"
    /\ c_variant = ""
    /\ c_str = ""
    /\ c_enc = [as_str |-> "", display |-> "", json |-> JNull]
    /\ c_res = Err("")

Init == ClientInit /\ CodecInit

\* the call of a public method up to the first await of api_call
Call(m, req) ==
    /\ pc = "idle"
    /\ method' = m
    /\ LET built == api_call_build(req, access_token) IN
       IF built.ok
       THEN /\ request' = built.val
            /\ pc' = "execute"
            /\ result' = result
       ELSE /\ request' = req
            /\ pc' = "done"
            /\ result' = built
    /\ UNCHANGED <<status, text, sent, access_token>>
    /\ UNCHANGED codecVars

current_user == Call("current_user", current_user_request)

identity == Call("identity", identity_request(NoInclude))

identity_and_member == Call("identity_and_member", identity_request(Some("Memberships")))

\* self.agent.execute(request).await? with a response
execute_ok ==
    /\ pc = "execute"
    /\ \E st \in StatusCodes : status' = st
    /\ pc' = "text"
    /\ UNCHANGED <<method, request, text, sent, result, access_token>>
    /\ UNCHANGED codecVars

\* self.agent.execute(request).await? with a transport error
execute_err ==
    /\ pc = "execute"
    /\ result' = Err(ReqwestError("error sending request"))
    /\ pc' = "done"
    /\ UNCHANGED <<method, request, status, text, sent, access_token>>
    /\ UNCHANGED codecVars

\* what the public method returns for the outcome of api_call
returned(m, called) ==
    IF m = "identity_and_member"
    THEN call_data_and_include(User, Member, called)
    ELSE call_data(User, called)

\* response.text().await? with the body, the rest of api_call and of the method
text_ok ==
    /\ pc = "text"
    /\ \E body \in Bodies(method) :
         /\ sent' = body.doc
         /\ text' = body.text
         /\ result' = returned(method, api_call(status, body.text))
    /\ pc' = "done"
    /\ UNCHANGED <<method, request, status, access_token>>
    /\ UNCHANGED codecVars

\* response.text().await? with a transport error
text_err ==
    /\ pc = "text"
    /\ result' = Err(ReqwestError("error decoding response body"))
    /\ pc' = "done"
    /\ UNCHANGED <<method, request, status, text, sent, access_token>>
    /\ UNCHANGED codecVars

\* the caller takes the result; the next call starts from a fresh future
Return ==
    /\ pc = "done"
    /\ pc' = "idle"
    /\ method' = "none"
    /\ request' = NoRequest
    /\ status' = 0
    /\ text' = <<>>
    /\ sent' = NoDocument
    /\ result' = NotReturned
    /\ UNCHANGED access_token
    /\ UNCHANGED codecVars

Next ==
    \/ current_user
    \/ identity
    \/ identity_and_member
    \/ execute_ok
    \/ execute_err
    \/ text_ok
    \/ text_err
    \/ Return

Spec == Init /\ [][Next]_vars

(***************************************************************************)
(* The codec on its own: a caller encodes a symbol, decodes a string, or   *)
(* decodes what was just encoded.                                          *)
(***************************************************************************)
Encode ==
    /\ \E name \in EnumNames : \E variant \in Variants(name) :
         /\ c_enum' = name
         /\ c_variant' = variant
         /\ c_enc' = [as_str |-> as_str(name, variant),
                      display |-> fmt(name, variant),
                      json |-> serialize(name, variant)]
    /\ c_op' = "encode"
    /\ c_str' = ""
    /\ c_res' = Err("")
    /\ UNCHANGED clientVars

Decode ==
    /\ \E name \in EnumNames : \E s \in WireStrings :
         /\ c_enum' = name
         /\ c_str' = s
         /\ c_res' = deserialize(name, JStr(s))
    /\ c_op' = "decode"
    /\ c_variant' = ""
    /\ c_enc' = [as_str |-> "", display |-> "", json |-> JNull]
    /\ UNCHANGED clientVars

DecodeNonString ==
    /\ \E name \in EnumNames : \E j \in {JNull, JNum(0), JBool(TRUE), JArr(<<JStr("paid")>>)} :
         /\ c_enum' = name
         /\ c_res' = deserialize(name, j)
    /\ c_op' = "decode_other"
    /\ c_str' = ""
    /\ c_variant' = ""
    /\ c_enc' = [as_str |-> "", display |-> "", json |-> JNull]
    /\ UNCHANGED clientVars

RoundTrip ==
    /\ c_op = "encode"
    /\ c_op' = "roundtrip"
    /\ c_str' = c_enc.json.s
    /\ c_res' = deserialize(c_enum, c_enc.json)
    /\ UNCHANGED <<c_enum, c_variant, c_enc>>
    /\ UNCHANGED clientVars

CodecNext ==
    \/ Encode
    \/ Decode
    \/ DecodeNonString
    \/ RoundTrip

CodecSpec == Init /\ [][CodecNext]_vars

(***************************************************************************)
(* Properties of the codec (CodecSpec).                                    *)
(***************************************************************************)
\* the literal each symbol is declared with, lines 240-259
DeclaredLiteral ==
    [ IdentityIncldue |-> [Memberships |-> "memberships", Campaign |-> "campaign"],
      LastChrgeStatus |-> [Paid |-> "Paid", Declined |-> "Declined", Deleted |-> "Deleted",
                           Pending |-> "Pending", Refunded |-> "Refunded",
                           Fraud |-> "Fraud", Other |-> "Other"],
      PatronStatus |-> [ActivePatron |-> "active_patron",
                        DeclinedPatron |-> "declined_patron",
                        FormerPatron |-> "former_patron"] ]

DeclaredLiterals(name) == {DeclaredLiteral[name][v] : v \in DOMAIN DeclaredLiteral[name]}

\* C1: decoding the string produced by encoding a symbol S of any of the
\* three enums yields S again
C1_RoundTrip ==
    c_op = "roundtrip" => c_res = Ok(Sym(c_enum, c_variant))

C1_Witness ==
    /\ c_op = "roundtrip"
    /\ c_enum = "PatronStatus"
    /\ c_variant = "FormerPatron"
    /\ c_str = "former_patron"
    /\ c_res.ok

\* C2: decode succeeds only on a string exactly equal to one of the enum's
\* bound literals, and then returns the symbol bound to it; every other
\* string, ACTIVE_PATRON on PatronStatus among them, is an error
C2_DecodeExact ==
    c_op = "decode" =>
        /\ c_res.ok <=> c_str \in DeclaredLiterals(c_enum)
        /\ c_res.ok => /\ c_res.val.enum = c_enum
                       /\ DeclaredLiteral[c_enum][c_res.val.variant] = c_str
        /\ (c_enum = "PatronStatus" /\ c_str = "ACTIVE_PATRON") => ~c_res.ok

C2_Witness ==
    /\ c_op = "decode"
    /\ c_enum = "PatronStatus"
    /\ c_str = "ACTIVE_PATRON"
    /\ ~c_res.ok

ChargeVariants == {"Paid", "Declined", "Deleted", "Pending", "Refunded", "Fraud", "Other"}

\* C4 as claimed: LastChrgeStatus encodes each symbol as its name in
\* lowercase and decodes exactly the seven lowercase strings
C4_LowercaseLiterals ==
    /\ (c_op = "encode" /\ c_enum = "LastChrgeStatus") =>
            c_enc.as_str = ToLower(c_variant)
    /\ (c_op = "decode" /\ c_enum = "LastChrgeStatus") =>
            (c_res.ok <=> c_str \in {ToLower(v) : v \in ChargeVariants})

\* C4: the default-literal mode binds each symbol to its own name as
\* written; LastChrgeStatus encodes its seven symbols as Paid, Declined,
\* Deleted, Pending, Refunded, Fraud, Other and decodes exactly those strings
C4_VerbatimLiterals ==
    /\ (c_op = "encode" /\ c_enum = "LastChrgeStatus") =>
            /\ c_variant \in ChargeVariants
            /\ c_enc.as_str = c_variant
            /\ c_enc.json = JStr(c_variant)
    /\ (c_op = "decode" /\ c_enum = "LastChrgeStatus") =>
            /\ c_res.ok <=> c_str \in ChargeVariants
            /\ c_res.ok => c_res.val = Sym("LastChrgeStatus", c_str)

C4_Witness ==
    /\ c_op = "decode"
    /\ c_enum = "LastChrgeStatus"
    /\ c_str = "Paid"
    /\ c_res = Ok(Sym("LastChrgeStatus", "Paid"))

\* C10: for every symbol as_str, Display and Serialize give the same
\* string, it is the literal of the declaration, and no other symbol of the
\* enum has it
C10_EncodeSingleValued ==
    c_op = "encode" =>
        /\ c_variant \in DOMAIN DeclaredLiteral[c_enum]
        /\ c_enc.as_str = DeclaredLiteral[c_enum][c_variant]
        /\ c_enc.display = c_enc.as_str
        /\ c_enc.json = JStr(c_enc.as_str)
        /\ \A w \in Variants(c_enum) \ {c_variant} : as_str(c_enum, w) # c_enc.as_str

C10_Witness ==
    /\ c_op = "encode"
    /\ c_enum = "IdentityIncldue"
    /\ c_variant = "Campaign"
    /\ c_enc.display = "campaign"

(***************************************************************************)
(* Properties of the request cycle (Spec).                                 *)
(***************************************************************************)
\* a response was read: the call returned after response.text() gave a body
Received == pc = "done" /\ sent # NoDocument
Success == status \in 200..299
WholeText == text = Render(sent)
Failed(kind) == ~result.ok /\ result.err.kind = kind

HasKey(ms, key) == \E i \in 1..Len(ms) : ms[i].key = key
Occurrences(ms, key) == Cardinality({i \in 1..Len(ms) : ms[i].key = key})
ValueAt(ms, key) == ms[CHOOSE i \in 1..Len(ms) : ms[i].key = key].val

\* the records the well-formed documents stand for
UserValue ==
    [ document_type |-> "user", id |-> "1",
      attributes |->
        [ first_name |-> "Ada", last_name |-> "Byron", full_name |-> "Ada Byron",
          vanity |-> Some("ada"), email |-> "ada@example.org", about |-> Some("Analyst"),
          facebook_id |-> Some("fb1"), image_url |-> "https://img/ada",
          thumb_url |-> "https://thumb/ada", youtube |-> Some("yt"),
          twitter |-> Some("tw"), facebook |-> Some("fb"),
          created |-> 1577836800, url |-> "https://www.patreon.com/ada" ] ]

MemberValue(id, cents, charge, patron) ==
    [ document_type |-> "member", id |-> id,
      attributes |->
        [ campaign_lifetime_support_cents |-> cents,
          currently_entitled_amount_cents |-> 500,
          email |-> Some("ada@example.org"), full_name |-> "Ada Byron",
          is_follower |-> FALSE, last_charge_date |-> 1623760200,
          last_charge_status |-> Some(Sym("LastChrgeStatus", charge)),
          lifetime_support_cents |-> cents, next_charge_date |-> 1623760200,
          note |-> "", patron_status |-> Some(Sym("PatronStatus", patron)),
          pledge_cadence |-> 1, pledge_relationship_start |-> 1577836800,
          will_pay_amount_cents |-> 500 ] ]

Member1Value == MemberValue("m1", 1500, "Paid", "ActivePatron")
Member2Value == MemberValue("m2", 0, "Declined", "DeclinedPatron")
ValueOfMember(j) == IF j = JObj(Member1Json) THEN Member1Value ELSE Member2Value

IsErrorsEnvelope(doc) ==
    /\ doc.k = "obj"
    /\ Len(doc.m) = 1
    /\ doc.m[1].key = "errors"
    /\ doc.m[1].val.k = "arr"
    /\ \A i \in 1..Len(doc.m[1].val.a) : doc.m[1].val.a[i].k = "obj"

\* C3: a non-success status with a body {"errors":[...]} returns
\* PatreonError::PatreonApi with that status and the errors in received
\* order; a success status never returns PatreonError::PatreonApi
C3_ReportedFailure ==
    Received =>
        /\ (~Success /\ WholeText /\ IsErrorsEnvelope(sent)) =>
              /\ Failed("PatreonApi")
              /\ result.err.status = status
              /\ Len(result.err.errors) = Len(sent.m[1].val.a)
              /\ \A i \in 1..Len(result.err.errors) :
                    result.err.errors[i].payload = sent.m[1].val.a[i].m
        /\ Success => ~Failed("PatreonApi")

C3_Witness ==
    /\ Received
    /\ status = 404
    /\ sent = JObj(<< KV("errors", JArr(<<Error2Json, Error1Json>>)) >>)
    /\ Failed("PatreonApi")
    /\ result.err.status = 404
    /\ Len(result.err.errors) = 2

\* C9: with a non-success status api_call never returns Ok; it returns
\* PatreonError::PatreonApi for an errors envelope and otherwise (text that
\* is not JSON, an object without errors, a data envelope) a JSON error
\* that carries no status
C9_FailureStatusNeverOk ==
    /\ (pc = "done" /\ status # 0 /\ ~Success) => ~result.ok
    /\ (Received /\ ~Success) =>
          /\ result.err.kind \in {"PatreonApi", "Json"}
          /\ result.err.kind = "Json" => "status" \notin DOMAIN result.err
          /\ (WholeText /\ IsErrorsEnvelope(sent)) => Failed("PatreonApi")
          /\ ~ParseDocument(text).ok => Failed("Json")
          /\ (WholeText /\ sent.k = "obj" /\ ~HasKey(sent.m, "errors")) => Failed("Json")

C9_Witness ==
    /\ Received
    /\ status = 404
    /\ sent = ValidDataDocument
    /\ WholeText
    /\ Failed("Json")

\* C5: a success body {"data": D, "include": [I1..In]} decoded by
\* call_data_and_include returns (D, [I1..In]): same length, same order,
\* duplicates kept, the empty array as the empty sequence
C5_IncludeOrder ==
    (Received /\ Success /\ WholeText /\ method = "identity_and_member") =>
        /\ \A l \in SeqsUpTo(ValidMembers, MaxInclude) :
              sent = JObj(EnvelopeIncludeJson(JObj(UserJson), l)) =>
                  result = Ok(<< UserValue, [i \in 1..Len(l) |-> ValueOfMember(l[i])] >>)
        /\ (result.ok /\ sent.k = "obj" /\ Occurrences(sent.m, "include") = 1) =>
              /\ ValueAt(sent.m, "include").k = "arr"
              /\ Len(result.val[2]) = Len(ValueAt(sent.m, "include").a)

C5_Witness ==
    /\ Received
    /\ status = 200
    /\ method = "identity_and_member"
    /\ sent = JObj(EnvelopeIncludeJson(JObj(UserJson), <<JObj(Member2Json), JObj(Member1Json)>>))
    /\ result.ok
    /\ result.val[2] = << Member2Value, Member1Value >>

\* C7: call_data_and_include on a success body with a valid data member
\* and no include member is a JSON error, not the data with an empty sequence
C7_IncludeRequired ==
    (Received /\ Success /\ WholeText /\ method = "identity_and_member"
        /\ sent.k = "obj" /\ ~HasKey(sent.m, "include")
        /\ HasKey(sent.m, "data") /\ ValueAt(sent.m, "data") = JObj(UserJson)) =>
            Failed("Json")

C7_Witness ==
    /\ Received
    /\ status = 200
    /\ method = "identity_and_member"
    /\ sent = ValidDataDocument
    /\ WholeText
    /\ Failed("Json")

\* v is the value of type T in which every field equals the value the JSON
\* document j gives it
RECURSIVE Agrees(_, _, _)
Agrees(T, v, j) ==
    CASE T.k = "String" -> j.k = "str" /\ v = j.s
      [] T.k = "i64" -> j.k = "num" /\ v = j.n
      [] T.k = "bool" -> j.k = "bool" /\ v = j.b
      [] T.k = "DateTime" ->
            /\ j.k = "str"
            /\ \E i \in 1..Len(Rfc3339) : Rfc3339[i].str = j.s /\ Rfc3339[i].utc = v
      [] T.k = "Option" ->
            IF j.k = "null" THEN v = None ELSE v.some /\ Agrees(T.of, v.v, j)
      [] T.k = "enum" ->
            /\ j.k = "str"
            /\ v.enum = T.name
            /\ v.variant \in DOMAIN DeclaredLiteral[T.name]
            /\ DeclaredLiteral[T.name][v.variant] = j.s
      [] T.k = "Vec" ->
            /\ j.k = "arr"
            /\ Len(v) = Len(j.a)
            /\ \A i \in 1..Len(v) : Agrees(T.of, v[i], j.a[i])
      [] T.k = "struct" ->
            IF j.k = "obj"
            THEN \A i \in 1..Len(T.fields) :
                    IF HasKey(j.m, T.fields[i].key)
                    THEN /\ Occurrences(j.m, T.fields[i].key) = 1
                         /\ Agrees(T.fields[i].ty, v[T.fields[i].name],
                                   ValueAt(j.m, T.fields[i].key))
                    ELSE v[T.fields[i].name] = None
            ELSE /\ j.k = "arr"
                 /\ Len(j.a) = Len(T.fields)
                 /\ \A i \in 1..Len(T.fields) :
                        Agrees(T.fields[i].ty, v[T.fields[i].name], j.a[i])

SuspendedMemberJson ==
    JObj(DocumentJson("member", "m1",
            With(MemberAttributesJson(1500, "Paid", "active_patron"),
                 "patron_status", JStr("suspended"))))

\* C6: on a success status call_data and call_data_and_include return
\* either a record every field of which equals the input's value, or a JSON
\* error; truncated text and an undeclared enum string in any item fail the
\* whole decode
C6_AllOrNothing ==
    (Received /\ Success) =>
        /\ IF result.ok
           THEN /\ WholeText
                /\ IF method = "identity_and_member"
                   THEN Agrees(DocResponseInclude(User, Member),
                               [data |-> result.val[1], include |-> result.val[2]], sent)
                   ELSE Agrees(DocResponse(User), [data |-> result.val], sent)
           ELSE Failed("Json")
        /\ ~ParseDocument(text).ok => Failed("Json")
        /\ (method = "identity_and_member" /\ sent.k = "obj"
              /\ HasKey(sent.m, "include") /\ ValueAt(sent.m, "include").k = "arr"
              /\ \E i \in 1..Len(ValueAt(sent.m, "include").a) :
                    ValueAt(sent.m, "include").a[i] = SuspendedMemberJson)
           => Failed("Json")

C6_Witness ==
    /\ Received
    /\ status = 200
    /\ method = "identity_and_member"
    /\ sent = JObj(EnvelopeIncludeJson(JObj(UserJson), <<JObj(Member2Json), SuspendedMemberJson>>))
    /\ WholeText
    /\ Failed("Json")

OptionalUserFields == {"vanity", "about", "facebook_id", "youtube", "twitter", "facebook"}
OptionalMemberFields == {"email", "last_charge_status", "patron_status"}

AbsentOrNull(ms, key) == {Without(ms, key), With(ms, key, JNull)}

\* C8: an optional field of the identity or membership record that is
\* absent or null decodes to None with every other field unchanged; a
\* non-optional field that is absent or null fails the decode
C8_OptionalFields ==
    (Received /\ Success /\ WholeText) =>
        /\ method # "identity_and_member" =>
              \A key \in FieldNames(UserAttributes) :
              \A a \in AbsentOrNull(UserAttributesJson, key) :
                 sent = JObj(EnvelopeJson(JObj(DocumentJson("user", "1", a)))) =>
                    IF key \in OptionalUserFields
                    THEN result = Ok([UserValue EXCEPT !.attributes[key] = None])
                    ELSE Failed("Json")
        /\ method = "identity_and_member" =>
              \A key \in FieldNames(MemberAttributes) :
              \A a \in AbsentOrNull(MemberAttributesJson(1500, "Paid", "active_patron"), key) :
                 sent = JObj(EnvelopeIncludeJson(JObj(UserJson),
                                <<JObj(DocumentJson("member", "m1", a))>>)) =>
                    IF key \in OptionalMemberFields
                    THEN result = Ok(<< UserValue,
                                        <<[Member1Value EXCEPT !.attributes[key] = None]>> >>)
                    ELSE Failed("Json")

C8_Witness ==
    /\ Received
    /\ status = 200
    /\ method = "identity_and_member"
    /\ sent = JObj(EnvelopeIncludeJson(JObj(UserJson),
                     <<JObj(DocumentJson("member", "m1",
                          Without(MemberAttributesJson(1500, "Paid", "active_patron"),
                                  "last_charge_status")))>>))
    /\ result.ok
    /\ result.val[2][1].attributes.last_charge_status = None
    /\ result.val[2][1].attributes.patron_status = Some(Sym("PatronStatus", "ActivePatron"))

====
